---- MODULE Spec2Model ----
(***************************************************************************)
(* Week planner plugin: the markdown section editor (WeekPlannerFile), the *)
(* task mover with its undo stack (WeekPlannerPlugin) and the working-day  *)
(* search.                                                                 *)
(*                                                                         *)
(* A note's content is the sequence of its lines, i.e. content.split('\n') *)
(* of the stored string: it is never empty (the empty string is <<"">>).   *)
(* Line indices in operator arguments and results are the 0-based indices  *)
(* of the TypeScript code; the line with index i is lines[i + 1].          *)
(*                                                                         *)
(* src/src/file.ts holds two WeekPlannerFile classes: the first ("## "     *)
(* variant, lines 12-184) and the second ("# / ## " variant with header    *)
(* cleanup, lines 257-467).  build = 1 or 2 says which one is linked.      *)
(***************************************************************************)
EXTENDS Integers, Sequences, FiniteSets, TLC

\* ------------------------------------------------------------------ strings

TODO_PREFIX == "- [ ] "
TODO_DONE_PREFIX == "- [x] "

StartsWith(s, p) == Len(s) >= Len(p) /\ SubSeq(s, 1, Len(p)) = p

RECURSIVE TrimLeft(_)
TrimLeft(s) == IF Len(s) > 0 /\ SubSeq(s, 1, 1) = " " THEN TrimLeft(SubSeq(s, 2, Len(s))) ELSE s

RECURSIVE TrimRight(_)
TrimRight(s) ==
    IF Len(s) > 0 /\ SubSeq(s, Len(s), Len(s)) = " " THEN TrimRight(SubSeq(s, 1, Len(s) - 1)) ELSE s

\* String.prototype.trim
Trim(s) == TrimRight(TrimLeft(s))

\* the prefix test of main.ts on an editor line (no trimming)
IsTodoLine(s) == StartsWith(s, TODO_PREFIX) \/ StartsWith(s, TODO_DONE_PREFIX)

\* the test of file.ts (second class) on a trimmed line
IsTodoTrimmed(s) == StartsWith(Trim(s), "- [ ]") \/ StartsWith(Trim(s), "- [x]")

\* ------------------------------------------------------------------ arrays

Min(a, b) == IF a < b THEN a ELSE b
Max(a, b) == IF a > b THEN a ELSE b

\* Array.prototype.splice(start, 0, ...ins): start is clamped to the length
SpliceIn(lines, start, ins) ==
    LET s == Min(Max(start, 0), Len(lines))
    IN  SubSeq(lines, 1, s) \o ins \o SubSeq(lines, s + 1, Len(lines))

\* Array.prototype.splice(start, 1): nothing is removed at or past the end
SpliceOut(lines, start) ==
    IF start >= 0 /\ start < Len(lines)
    THEN SubSeq(lines, 1, start) \o SubSeq(lines, start + 2, Len(lines))
    ELSE lines

\* Array.prototype.findIndex over the set of the indices (from 0) the predicate
\* holds at: the least of them, or -1
First(S) == IF S = {} THEN -1 ELSE CHOOSE i \in S : \A j \in S : i <= j

Indices(lines) == 0..(Len(lines) - 1)

\* Array.prototype.indexOf
\* indexOf that finds the last occurrence
IndexOf_Last(lines, text) ==
    LET S == {i \in Indices(lines) : lines[i + 1] = text}
    IN  IF S = {} THEN -1 ELSE CHOOSE i \in S : \A j \in S : j <= i

IndexOf(lines, text) == First({i \in Indices(lines) : lines[i + 1] = text})

\* number of characters of lines[1..n] joined with '\n', each followed by '\n'
RECURSIVE CharsOf(_, _)
CharsOf(lines, n) == IF n = 0 THEN 0 ELSE CharsOf(lines, n - 1) + Len(lines[n]) + 1

\* ------------------------------------------------------------ frontmatter

\* /^---\n[\s\S]*?\n---\n?/ : 0-based index of the line the lazy match closes on
\* (the first line from index 2 on that starts with ---), or -1 without a match
FrontMatterClose(lines) ==
    IF Len(lines) >= 2 /\ lines[1] = "---"
    THEN LET Dash(l) == StartsWith(l, "---")
             rel == First({i \in Indices(SubSeq(lines, 3, Len(lines))) : Dash(lines[i + 3])})
         IN  IF rel = -1 THEN -1 ELSE rel + 2
    ELSE -1

HasFrontMatter(lines) == FrontMatterClose(lines) # -1

\* the optional trailing \n of the match
FrontMatterNewline(lines) ==
    LET j == FrontMatterClose(lines)
    IN  j # -1 /\ lines[j + 1] = "---" /\ j + 1 < Len(lines)

\* frontMatterMatch[0].length, in characters
FrontMatterChars(lines) ==
    LET j == FrontMatterClose(lines)
    IN  IF j = -1 THEN 0
        ELSE CharsOf(lines, j) + 3 + (IF FrontMatterNewline(lines) THEN 1 ELSE 0)

\* frontMatterMatch[0].split('\n').length; '' splits into one element
FrontMatterSplitLen(lines) ==
    LET j == FrontMatterClose(lines)
    IN  IF j = -1 THEN 1
        ELSE j + 1 + (IF FrontMatterNewline(lines) THEN 1 ELSE 0)

\* ------------------------------------------------- WeekPlannerFile, class 1

InsertResult(lines, insertedLines, headerAdded) ==
    [lines |-> lines, insertedLines |-> insertedLines, headerAdded |-> headerAdded]

findHeaderLine1(lines, header) ==
    LET headerText == "## " \o header
        Is(l) == Trim(l) = headerText
    IN  First({i \in Indices(lines) : Is(lines[i + 1])})

\* while (insertPosition < lines.length && lines[insertPosition].trim() === '') splice
RECURSIVE DropBlanksAt(_, _)
DropBlanksAt(lines, pos) ==
    IF pos >= 0 /\ pos < Len(lines) /\ Trim(lines[pos + 1]) = ""
    THEN DropBlanksAt(SpliceOut(lines, pos), pos)
    ELSE lines

insertAt1(lines, text, header) ==
    LET fm == HasFrontMatter(lines)
        insertStart == IF fm THEN FrontMatterChars(lines) ELSE 0
        skip == FrontMatterSplitLen(lines)
        linesAfterFrontMatter == SubSeq(lines, skip + 1, Len(lines))
        rel == findHeaderLine1(linesAfterFrontMatter, header)
        headerLineIndex == IF rel # -1 THEN rel + insertStart ELSE -1
        insertPosition == headerLineIndex + 1
        \* the element `## ${header}\n${text}\n` joins into three lines
        headerContent == <<"## " \o header, text, "">>
    IN  IF headerLineIndex # -1
        THEN InsertResult(SpliceIn(DropBlanksAt(lines, insertPosition), insertPosition, <<text, "">>),
                          <<insertPosition, insertPosition + 1>>, FALSE)
        ELSE IF fm
        THEN InsertResult(SpliceIn(lines, insertStart, headerContent),
                          <<insertStart, insertStart + 1>>, TRUE)
        ELSE InsertResult(<<"">> \o headerContent \o lines, <<0, 1, 2>>, TRUE)

DeleteResult(lines, written) == [lines |-> lines, written |-> written]

deleteLine1(lines, lineNumber, lineText) ==
    IF lineNumber >= 0 /\ lineNumber < Len(lines) /\ lines[lineNumber + 1] = lineText
    THEN DeleteResult(SpliceOut(lines, lineNumber), TRUE)
    ELSE LET index == IndexOf(lines, lineText)
         IN  IF index # -1 THEN DeleteResult(SpliceOut(lines, index), TRUE)
             ELSE DeleteResult(lines, TRUE)

createContent1(template, header) ==
    \* template: <<>> when the template file is missing; '' is falsy
    (IF template = <<>> \/ template = <<"">> THEN <<>> ELSE template)
    \o (IF header # "" THEN <<"## " \o header, "", "">> ELSE <<"">>)

\* ------------------------------------------------- WeekPlannerFile, class 2

IsHeader2(l, header) == Trim(l) = "# " \o header \/ Trim(l) = "## " \o header

\* the scan for the last to-do under the header: it stops at the next line whose
\* trimmed text starts with #; i is the 0-based index of the next line to look at
RECURSIVE LastTodoFrom(_, _, _)
LastTodoFrom(lines, i, last) ==
    IF i >= Len(lines) THEN last
    ELSE IF IsTodoTrimmed(lines[i + 1]) THEN LastTodoFrom(lines, i + 1, i)
    ELSE IF StartsWith(Trim(lines[i + 1]), "#") THEN last
    ELSE LastTodoFrom(lines, i + 1, last)

insertAt2(lines, text, header) ==
    LET insertStart == IF HasFrontMatter(lines) THEN FrontMatterSplitLen(lines) ELSE 0
        Is(l) == IsHeader2(l, header)
        headerLineIndex == First({i \in Indices(lines) : Is(lines[i + 1])})
        lastTodoIndex == LastTodoFrom(lines, headerLineIndex + 1, headerLineIndex)
        withText == SpliceIn(lines, lastTodoIndex + 1, <<text>>)
        needBlank == lastTodoIndex + 2 >= Len(withText)
                     \/ Trim(withText[lastTodoIndex + 3]) # ""
    IN  IF headerLineIndex # -1
        THEN IF needBlank
             THEN InsertResult(SpliceIn(withText, lastTodoIndex + 2, <<"">>),
                               <<lastTodoIndex + 1, lastTodoIndex + 2>>, FALSE)
             ELSE InsertResult(withText, <<lastTodoIndex + 1>>, FALSE)
        ELSE InsertResult(SpliceIn(lines, insertStart, <<"# " \o header, text, "">>),
                          <<insertStart, insertStart + 1, insertStart + 2>>, TRUE)

\* whether a to-do follows index i before the next line starting with #
RECURSIVE HasTodosFrom(_, _)
HasTodosFrom(lines, i) ==
    IF i >= Len(lines) THEN FALSE
    ELSE IF IsTodoTrimmed(lines[i + 1]) THEN TRUE
    ELSE IF StartsWith(Trim(lines[i + 1]), "#") THEN FALSE
    ELSE HasTodosFrom(lines, i + 1)

\* the header cleanup of deleteLine: only the Inbox header is looked for
CleanupInbox(lines) ==
    LET Is(l) == IsHeader2(l, "Inbox")
        inboxHeaderIndex == First({i \in Indices(lines) : Is(lines[i + 1])})
        noHeader == SpliceOut(lines, inboxHeaderIndex)
    IN  IF inboxHeaderIndex # -1 /\ ~HasTodosFrom(lines, inboxHeaderIndex + 1)
        THEN IF inboxHeaderIndex < Len(noHeader) /\ noHeader[inboxHeaderIndex + 1] = ""
             THEN SpliceOut(noHeader, inboxHeaderIndex)
             ELSE noHeader
        ELSE lines

deleteLine2(lines, lineNumber, lineText) ==
    IF lineNumber >= 0 /\ lineNumber < Len(lines) /\ lines[lineNumber + 1] = lineText
    THEN DeleteResult(CleanupInbox(SpliceOut(lines, lineNumber)), TRUE)
    ELSE LET index == IndexOf(lines, lineText)
         IN  IF index # -1 THEN DeleteResult(CleanupInbox(SpliceOut(lines, index)), TRUE)
             ELSE DeleteResult(lines, FALSE)

createContent2(template, header) ==
    (IF template = <<>> \/ template = <<"">> THEN <<>> ELSE template)
    \o (IF header # "" THEN <<"# " \o header, "", "">> ELSE <<"">>)

\* ------------------------------------------------------- the linked class

insertAt(b, lines, text, header) ==
    IF b = 1 THEN insertAt1(lines, text, header) ELSE insertAt2(lines, text, header)

\* deleteLine that leaves the line in place
deleteLine_Keep(b, lines, lineNumber, lineText) == DeleteResult(lines, TRUE)

deleteLine(b, lines, lineNumber, lineText) ==
    IF b = 1 THEN deleteLine1(lines, lineNumber, lineText)
    ELSE deleteLine2(lines, lineNumber, lineText)

createContent(b, template, header) ==
    IF b = 1 THEN createContent1(template, header) ELSE createContent2(template, header)

\* ------------------------------------------------------------- file names

\* content of a path that holds no file
NoFile == <<>>

\* content.split('\n') of lines.join('\n'): an empty array joins into ''
Join(lines) == IF lines = <<>> THEN <<"">> ELSE lines

WEEK_PLANNER_BASE_DIR == "Week Planner"
TagBaseFolder == "Tags"
DailyNoteTemplate == "_templates/Daily.md"

DEFAULT_SETTINGS ==
    [workingDays |-> "Mon,Tue,Wed,Thu,Fri", baseDir |-> WEEK_PLANNER_BASE_DIR,
     dailyNoteTemplate |-> DailyNoteTemplate, tagBaseFolder |-> TagBaseFolder]

\* TFile.name: the path after its last '/'
RECURSIVE Name(_)
Name(path) ==
    LET Slash(i) == SubSeq(path, i, i) = "/"
        S == {i \in 1..Len(path) : Slash(i)}
    IN  IF S = {} THEN path
        ELSE Name(SubSeq(path, (CHOOSE i \in S : \A j \in S : i <= j) + 1, Len(path)))

extendFileName(baseDir, filename) ==
    IF filename = "Inbox.md" THEN baseDir \o "/" \o "Inbox.md" ELSE baseDir \o "/" \o filename

getInboxFileName(baseDir) == baseDir \o "/" \o "Inbox.md"

\* ------------------------------------------------------------------ dates
\* A date is its number of days since 1970-01-01 (a Thursday).

\* 2022-10-24, a Monday
DAY1 == 19289

Digit(k) == SubSeq("0123456789", k + 1, k + 1)
Pad2(n) == Digit((n \div 10) % 10) \o Digit(n % 10)
Pad4(n) == Pad2(n \div 100) \o Pad2(n % 100)

\* the civil date of day number z (z >= 0): proleptic Gregorian calendar
CivilFromDays(z) ==
    LET zz == z + 719468
        era == zz \div 146097
        doe == zz - era * 146097
        yoe == (doe - doe \div 1460 + doe \div 36524 - doe \div 146096) \div 365
        doy == doe - (365 * yoe + yoe \div 4 - yoe \div 100)
        mp == (5 * doy + 2) \div 153
        d == doy - (153 * mp + 2) \div 5 + 1
        m == IF mp < 10 THEN mp + 3 ELSE mp - 9
        y == yoe + era * 400 + (IF m <= 2 THEN 1 ELSE 0)
    IN  [y |-> y, m |-> m, d |-> d]

\* moment.format('YYYY-MM-DD')
dateString(date) ==
    LET c == CivilFromDays(date) IN Pad4(c.y) \o "-" \o Pad2(c.m) \o "-" \o Pad2(c.d)

\* getDayFileName that leaves the directory out
getDayFileName_NoDir(baseDir, date) == dateString(date) \o ".md"

getDayFileName(baseDir, date) == baseDir \o "/" \o dateString(date) \o ".md"

\* the value of a decimal digit, -1 for another character
DigitValue(c) == IF \E k \in 0..9 : Digit(k) = c THEN CHOOSE k \in 0..9 : Digit(k) = c ELSE -1

\* the number a string of digits writes, -1 when a character is no digit
RECURSIVE Number(_)
Number(str) ==
    IF str = "" THEN 0
    ELSE LET front == Number(SubSeq(str, 1, Len(str) - 1))
             unit == DigitValue(SubSeq(str, Len(str), Len(str)))
         IN  IF front = -1 \/ unit = -1 THEN -1 ELSE 10 * front + unit

\* the day number of a civil date: proleptic Gregorian calendar
DaysFromCivil(y, m, d) ==
    LET yy == IF m <= 2 THEN y - 1 ELSE y
        era == yy \div 400
        yoe == yy - era * 400
        doy == (153 * (IF m > 2 THEN m - 3 ELSE m + 9) + 2) \div 5 + d - 1
        doe == yoe * 365 + yoe \div 4 - yoe \div 100 + doy
    IN  era * 146097 + doe - 719468

\* what moment gives for a string that is no date
InvalidDate == -1

\* moment(str, 'YYYY-MM-DD') at midnight, for a string of that form
ParseDate(str) ==
    LET y == Number(SubSeq(str, 1, 4))
        m == Number(SubSeq(str, 6, 7))
        d == Number(SubSeq(str, 9, 10))
    IN  IF /\ Len(str) = 10
           /\ SubSeq(str, 5, 5) = "-" /\ SubSeq(str, 8, 8) = "-"
           /\ y # -1 /\ m \in 1..12 /\ d \in 1..31
        THEN DaysFromCivil(y, m, d)
        ELSE InvalidDate

\* String.prototype.replace('.md', ''): the first occurrence goes
ReplaceMd(str) ==
    LET S == {i \in 1..(Len(str) - 2) : SubSeq(str, i, i + 2) = ".md"}
    IN  IF S = {} THEN str
        ELSE LET i == CHOOSE k \in S : \A j \in S : k <= j
             IN  SubSeq(str, 1, i - 1) \o SubSeq(str, i + 3, Len(str))

\* moment(): the current day
Today == DAY1

\* getDateFromFilename that gives the current day for every name
getDateFromFilename_Now(filename) == Today

getDateFromFilename(filename) ==
    IF filename = "" THEN Today ELSE ParseDate(ReplaceMd(Name(filename)))

\* weekday of a date as Date.getDay() gives it: 0 is Sunday
Weekday(date) == (date + 4) % 7

WEEKDAYS == <<"Sun", "Mon", "Tue", "Wed", "Thu", "Fri", "Sat">>

\* String.prototype.split(',')
RECURSIVE Split(_)
Split(str) ==
    LET S == {i \in 1..Len(str) : SubSeq(str, i, i) = ","}
    IN  IF S = {} THEN <<str>>
        ELSE LET i == CHOOSE k \in S : \A j \in S : k <= j
             IN  <<SubSeq(str, 1, i - 1)>> \o Split(SubSeq(str, i + 1, Len(str)))

\* whether the date's weekday abbreviation is one of the comma-separated days
isWorkingDay(date, workingDays) ==
    \E k \in 1..Len(Split(workingDays)) : Split(workingDays)[k] = WEEKDAYS[Weekday(date) + 1]

\* no call of a date function in progress
NoCall == [fn |-> "", pc |-> "idle", workingDays |-> "", from |-> 0, date |-> 0]

\* ------------------------------------------------------- bounds of the model

\* commands the user issues in one run with operations suspended at their awaits
MaxOps == 2
\* commands the user issues in one run, each operation ending before the next
SerialOps == 3
\* move and undo operations that may be suspended at an await at the same time
MaxInFlight == 2
\* a move is started only while every note has at most this many lines
MaxLines == 7
\* lines of the notes the section editor is run on from the start
MaxNote == 4
\* section edits in one run
EditOps == 1

\* ------------------------------------------------------------ WeekPlannerPlugin

UNDO_LIMIT == 50

INBOX == getInboxFileName(WEEK_PLANNER_BASE_DIR)
DAYFILE1 == getDayFileName(WEEK_PLANNER_BASE_DIR, DAY1)
\* a note outside the base directory with the name of a day note
OUTSIDE == "Notes/" \o dateString(DAY1) \o ".md"
TAG == "#t"

Paths == {INBOX, DAYFILE1, OUTSIDE, DailyNoteTemplate, TagBaseFolder \o "/t.md"}

\* vault.getAbstractFileByPath(path) / vault.adapter.exists(path)
Exists(v, path) == path \in DOMAIN v /\ v[path] # NoFile

\* TaskAction, src/src/actions.ts
MoveAction(o) ==
    [sourceFile |-> o.src, destFile |-> o.dest, taskContent |-> o.task,
     sourceLine |-> o.line, insertedLines |-> o.insertedLines, headerAdded |-> o.headerAdded]

\* An operation suspended at an await.  pc names the pending I/O call; buf is the
\* content a pending write carries; wrote lists the writes the operation has made.
Idle ==
    [kind |-> "idle", pc |-> "idle", file |-> "", src |-> "", dest |-> "", line |-> 0,
     task |-> "", header |-> "", buf |-> <<>>, insertedLines |-> <<>>,
     headerAdded |-> FALSE, wrote |-> <<>>]

St(v, s, o) == [vault |-> v, undoStack |-> s, op |-> o]

\* PushAction without the shift
PushAction_NoShift(s, a) == Append(s, a)

\* this.undoStack.push(action); if (length > 50) shift()
PushAction(s, a) ==
    LET pushed == Append(s, a)
    IN  IF Len(pushed) > UNDO_LIMIT THEN Tail(pushed) ELSE pushed

\* move(), after `await source.deleteLine(...)` returned
AfterDelete(v, s, o) ==
    IF o.src = o.dest
    THEN IF Exists(v, o.dest)
         THEN St(v, s, [o EXCEPT !.pc = "sameRead"])
         ELSE St(v, s, Idle)    \* vault.read(null) throws: the move ends here
    ELSE St(v, s, [o EXCEPT !.pc = "exists"])

\* editor.getLine(line) of the note open in the editor; '' past its end
EditorLine(v, file, line) ==
    IF Exists(v, file) /\ line >= 0 /\ line < Len(v[file]) THEN v[file][line + 1] ELSE ""

\* move(editor, source, dest, header) up to its first await
MoveStart(v, s, file, line, dest, header) ==
    LET taskContent == EditorLine(v, file, line)
        o == [Idle EXCEPT !.kind = "move", !.file = file,
                          !.src = extendFileName(WEEK_PLANNER_BASE_DIR, Name(file)),
                          !.dest = dest, !.line = line, !.task = taskContent,
                          !.header = header]
    IN  IF IsTodoLine(taskContent)
        THEN IF Exists(v, o.src)
             THEN St(v, s, [o EXCEPT !.pc = "delRead"])
             ELSE AfterDelete(v, s, o)
        ELSE St(v, s, Idle)

\* insertAt from the content it works on to the vault.modify it issues
IssueInsert(b, content, o) ==
    LET r == insertAt(b, content, o.task, o.header)
    IN  [o EXCEPT !.pc = "insWrite", !.buf = Join(r.lines),
                  !.insertedLines = r.insertedLines, !.headerAdded = r.headerAdded]

\* insertAt up to its vault.read: without the file it returns an empty result,
\* which move() records
InsertLookup(v, s, o) ==
    IF Exists(v, o.dest) THEN St(v, s, [o EXCEPT !.pc = "insRead", !.buf = <<>>])
    ELSE St(v, PushAction(s, MoveAction(o)), Idle)

\* insertedLines.sort((a, b) => b - a)
RECURSIVE SortDesc(_)
SortDesc(q) ==
    IF q = <<>> THEN <<>>
    ELSE LET i == CHOOSE i \in 1..Len(q) : \A j \in 1..Len(q) : q[i] >= q[j]
         IN  <<q[i]>> \o SortDesc(SubSeq(q, 1, i - 1) \o SubSeq(q, i + 1, Len(q)))

\* for (lineIndex of insertedLines) if in range: destLines.splice(lineIndex, 1)
RECURSIVE RemoveAll(_, _)
RemoveAll(lines, q) ==
    IF q = <<>> THEN lines ELSE RemoveAll(SpliceOut(lines, Head(q)), Tail(q))

\* whether a task follows index i before the next line starting with '## '
RECURSIVE HasTasksFrom(_, _)
HasTasksFrom(lines, i) ==
    IF i >= Len(lines) THEN FALSE
    ELSE IF IsTodoLine(lines[i + 1]) THEN TRUE
    ELSE IF StartsWith(lines[i + 1], "## ") THEN FALSE
    ELSE HasTasksFrom(lines, i + 1)

\* while (destLines[headerLineIndex] === '') splice
RECURSIVE DropEmptyAt(_, _)
DropEmptyAt(lines, pos) ==
    IF pos >= 0 /\ pos < Len(lines) /\ lines[pos + 1] = ""
    THEN DropEmptyAt(SpliceOut(lines, pos), pos)
    ELSE lines

\* undoLastAction: the new content of the destination
UndoDest(lines, insertedLines, headerAdded) ==
    LET destLines == RemoveAll(lines, SortDesc(insertedLines))
        Is(l) == Trim(l) = "## Inbox"
        headerLineIndex == First({i \in Indices(destLines) : Is(destLines[i + 1])})
    IN  IF ~headerAdded /\ headerLineIndex # -1 /\ ~HasTasksFrom(destLines, headerLineIndex + 1)
        THEN DropEmptyAt(SpliceOut(destLines, headerLineIndex), headerLineIndex)
        ELSE destLines

\* undoLastAction up to its first await
\* UndoStart that leaves the last action on the stack
UndoStart_NoPop(v, s) ==
    IF s = <<>> THEN St(v, s, Idle)
    ELSE LET lastAction == s[Len(s)]
         IN  IF Exists(v, lastAction.destFile)
             THEN St(v, s,
                     [Idle EXCEPT !.kind = "undo", !.pc = "undoDestRead",
                                  !.src = lastAction.sourceFile, !.dest = lastAction.destFile,
                                  !.line = lastAction.sourceLine, !.task = lastAction.taskContent,
                                  !.insertedLines = lastAction.insertedLines,
                                  !.headerAdded = lastAction.headerAdded])
             ELSE St(v, s, Idle)

\* UndoStart that goes on to read the inbox note when the stack is empty
UndoStart_ReadsOnEmpty(v, s) ==
    IF s = <<>>
    THEN St(v, s, [Idle EXCEPT !.kind = "undo", !.pc = "undoDestRead",
                               !.src = INBOX, !.dest = INBOX])
    ELSE St(v, SubSeq(s, 1, Len(s) - 1), Idle)

UndoStart(v, s) ==
    IF s = <<>> THEN St(v, s, Idle)
    ELSE LET lastAction == s[Len(s)]
             popped == SubSeq(s, 1, Len(s) - 1)
         IN  IF Exists(v, lastAction.destFile)
             THEN St(v, popped,
                     [Idle EXCEPT !.kind = "undo", !.pc = "undoDestRead",
                                  !.src = lastAction.sourceFile, !.dest = lastAction.destFile,
                                  !.line = lastAction.sourceLine, !.task = lastAction.taskContent,
                                  !.insertedLines = lastAction.insertedLines,
                                  !.headerAdded = lastAction.headerAdded])
             ELSE St(v, popped, Idle)

\* One I/O call of a suspended operation takes effect and the operation runs on
\* to its next await.
StepOp(b, v, s, o) ==
    CASE o.pc = "tagCreate" ->
            \* getOrCreateTagPage: vault.create throws on an existing path
            IF Exists(v, o.dest) THEN St(v, s, Idle)
            ELSE MoveStart([v EXCEPT ![o.dest] = <<"# " \o SubSeq(TAG, 2, Len(TAG)), "">>],
                           s, o.file, o.line, o.dest, o.header)
      [] o.pc = "delRead" ->
            LET r == deleteLine(b, v[o.src], o.line, o.task)
            IN  IF r.written
                THEN St(v, s, [o EXCEPT !.pc = "delWrite", !.buf = Join(r.lines)])
                ELSE AfterDelete(v, s, o)
      [] o.pc = "delWrite" ->
            AfterDelete([v EXCEPT ![o.src] = o.buf], s,
                        [o EXCEPT !.buf = <<>>, !.wrote = Append(@, "delete")])
      [] o.pc = "sameRead" ->
            \* insertAt(text, header, content): content || vault.read(file)
            IF v[o.dest] = <<"">> THEN InsertLookup(v, s, o)
            ELSE St(v, s, IssueInsert(b, v[o.dest], o))
      [] o.pc = "exists" ->
            IF Exists(v, o.dest) THEN InsertLookup(v, s, o)
            ELSE IF Exists(v, DailyNoteTemplate) THEN St(v, s, [o EXCEPT !.pc = "templateRead"])
            ELSE St(v, s, [o EXCEPT !.pc = "create",
                                    !.buf = createContent(b, <<>>, o.header)])
      [] o.pc = "templateRead" ->
            St(v, s, [o EXCEPT !.pc = "create",
                               !.buf = createContent(b, v[DailyNoteTemplate], o.header)])
      [] o.pc = "create" ->
            IF Exists(v, o.dest) THEN St(v, s, Idle)
            ELSE InsertLookup([v EXCEPT ![o.dest] = o.buf], s, o)
      [] o.pc = "insRead" ->
            St(v, s, IssueInsert(b, v[o.dest], o))
      [] o.pc = "insWrite" ->
            St([v EXCEPT ![o.dest] = o.buf],
               PushAction(s, MoveAction(o)), Idle)
      [] o.pc = "undoDestRead" ->
            St(v, s, [o EXCEPT !.pc = "undoDestWrite",
                               !.buf = Join(UndoDest(v[o.dest], o.insertedLines, o.headerAdded))])
      [] o.pc = "undoDestWrite" ->
            IF Exists(v, o.src)
            THEN St([v EXCEPT ![o.dest] = o.buf], s, [o EXCEPT !.pc = "undoSrcRead", !.buf = <<>>])
            ELSE St([v EXCEPT ![o.dest] = o.buf], s, Idle)
      [] o.pc = "undoSrcRead" ->
            St(v, s, [o EXCEPT !.pc = "undoSrcWrite",
                               !.buf = SpliceIn(v[o.src], o.line, <<o.task>>)])
      [] o.pc = "undoSrcWrite" ->
            St([v EXCEPT ![o.src] = o.buf], s, Idle)

\* the pending I/O calls of the operation of n complete one after the other,
\* with nothing interleaved, until the operation ends
RECURSIVE RunFrom(_, _)
RunFrom(b, n) ==
    IF n.op.pc = "idle" THEN n ELSE RunFrom(b, StepOp(b, n.vault, n.undoStack, n.op))

\* an operation run from a suspension point to its end
RunOp(b, v, s, o) == RunFrom(b, St(v, s, o))

\* ------------------------------------------------------------------ state

VARIABLES
    build,      \* which WeekPlannerFile class of src/src/file.ts is linked: 1 or 2
    vault,      \* path -> lines of the note, NoFile without a note
    undoStack,  \* WeekPlannerPlugin.undoStack
    ops,        \* slot -> the operation suspended there, Idle when free
    dialog,     \* the open TodoModal: the note and cursor line it was opened on
    started,    \* commands issued so far
    opsBound,   \* commands the run may issue
    last,       \* the command issued in the last step, and whether its cursor
                \* line was a to-do line; NoCommand after any other step
    cal,        \* the call of a date function in progress: its arguments, the
                \* moment it advances and its position in the loop
    settings    \* WeekPlannerPlugin.settings

pvars == <<build, vault, undoStack, ops, dialog, started, opsBound, last, cal, settings>>

NoCommand == [cmd |-> "", todo |-> FALSE]

\* the method or handler `name` ran in the last step
Called(name) == [cmd |-> name, todo |-> FALSE]

\* the command cmd was issued on the line `line` of the note `file`
Issued(cmd, file, line) == [cmd |-> cmd, todo |-> IsTodoLine(EditorLine(vault, file, line))]

NoDialog == [open |-> FALSE, file |-> "", line |-> 0]

Slots == 1..MaxInFlight

\* notes the user may have open in the editor
EditorFiles == {INBOX, DAYFILE1, OUTSIDE}

Cursors(v) == {c \in EditorFiles \X (0..MaxLines) : Exists(v, c[1]) /\ c[2] < Len(v[c[1]])}

FreeSlot == CHOOSE i \in Slots : ops[i].pc = "idle" /\ \A j \in Slots : ops[j].pc = "idle" => i <= j

CanStart ==
    /\ started < opsBound
    /\ \E i \in Slots : ops[i].pc = "idle"
    /\ \A p \in Paths : Len(vault[p]) <= MaxLines

\* the state n, reached by a command or a step, with its operation in slot i
Install(n, i) ==
    /\ vault' = n.vault
    /\ undoStack' = n.undoStack
    /\ ops' = [ops EXCEPT ![i] = n.op]

\* sample notes of the initial vault
NoteTop == <<"## Inbox", "- [ ] a", "">>
NoteMid == <<"title", "## Inbox", "- [ ] a", "- [x] b", "">>
NoteHash == <<"# Inbox", "- [ ] c", "">>
NoteFront == <<"---", "k: v", "---", "", "## Inbox", "- [ ] d", "">>
NoteOut == <<"- [ ] a">>
NoteTemplate == <<"---", "k: v", "---">>

Vault(inbox, day, outside, template) ==
    [p \in Paths |->
        CASE p = INBOX -> inbox
          [] p = DAYFILE1 -> day
          [] p = OUTSIDE -> outside
          [] p = DailyNoteTemplate -> template
          [] OTHER -> NoFile]

InitVaults ==
    {Vault(NoteTop, NoteMid, NoFile, NoFile),
     Vault(NoteHash, NoFile, NoteOut, NoteTemplate),
     Vault(NoFile, NoteFront, NoFile, NoFile),
     Vault(NoteMid, NoteHash, NoteOut, NoFile)}

AsyncVaults ==
    {Vault(NoteTop, NoteMid, NoFile, NoFile),
     Vault(NoteHash, NoFile, NoteOut, NoteTemplate)}

Start(vaults, bound) ==
    /\ build \in {1, 2}
    /\ vault \in vaults
    /\ undoStack = <<>>
    /\ ops = [i \in Slots |-> Idle]
    /\ dialog = NoDialog
    /\ started = 0
    /\ opsBound = bound
    /\ last = NoCommand
    /\ cal = NoCall
    /\ settings = DEFAULT_SETTINGS

Init == Start(AsyncVaults, MaxOps)

\* command 'Move to Inbox' with the cursor on `line` of `file`
MoveTaskToInbox(file, line) ==
    /\ CanStart
    /\ started' = started + 1
    /\ IF IsTodoLine(EditorLine(vault, file, line))
       THEN Install(MoveStart(vault, undoStack, file, line, INBOX, "Inbox"), FreeSlot)
       ELSE UNCHANGED <<vault, undoStack, ops>>
    /\ last' = Issued("moveTaskToInbox", file, line)
    /\ UNCHANGED <<build, dialog, opsBound, cal, settings>>

\* OpenModal without the test of the cursor line
OpenModal_Always(cmd, file, line) ==
    /\ CanStart
    /\ ~dialog.open
    /\ started' = started + 1
    /\ dialog' = [open |-> TRUE, file |-> file, line |-> line]
    /\ last' = Issued(cmd, file, line)
    /\ UNCHANGED <<build, vault, undoStack, ops, opsBound, cal, settings>>

\* moveTask and moveAnywhere: the TodoModal opens on a to-do line
OpenModal(cmd, file, line) ==
    /\ CanStart
    /\ ~dialog.open
    /\ started' = started + 1
    /\ dialog' = IF IsTodoLine(EditorLine(vault, file, line))
                 THEN [open |-> TRUE, file |-> file, line |-> line]
                 ELSE dialog
    /\ last' = Issued(cmd, file, line)
    /\ UNCHANGED <<build, vault, undoStack, ops, opsBound, cal, settings>>

\* command 'Move Task'
MoveTask(file, line) == OpenModal("moveTask", file, line)

\* command 'Move anywhere'
MoveAnywhere(file, line) == OpenModal("moveAnywhere", file, line)

\* the modal's onSubmit with a date
SubmitDate(date) ==
    /\ dialog.open
    /\ \E i \in Slots : ops[i].pc = "idle"
    /\ Install(MoveStart(vault, undoStack, dialog.file, dialog.line,
                         getDayFileName(WEEK_PLANNER_BASE_DIR, date), "Inbox"), FreeSlot)
    /\ dialog' = NoDialog
    /\ last' = NoCommand
    /\ UNCHANGED <<build, started, opsBound, cal, settings>>

\* getOrCreateTagPage: `${tagBaseFolder}/${sanitizedTagName}.md`
TagPagePath(tag) ==
    TagBaseFolder \o "/" \o (IF StartsWith(tag, "#") THEN SubSeq(tag, 2, Len(tag)) ELSE tag) \o ".md"

\* moveTaskToTag up to its first await
TagStart(v, s, file, line) ==
    IF Exists(v, TagPagePath(TAG))
    THEN MoveStart(v, s, file, line, TagPagePath(TAG), "Inbox")
    ELSE St(v, s, [Idle EXCEPT !.kind = "move", !.pc = "tagCreate", !.file = file,
                               !.line = line, !.dest = TagPagePath(TAG), !.header = "Inbox"])

\* the modal's onSubmit with a tag
SubmitTag ==
    /\ dialog.open
    /\ \E i \in Slots : ops[i].pc = "idle"
    /\ Install(TagStart(vault, undoStack, dialog.file, dialog.line), FreeSlot)
    /\ dialog' = NoDialog
    /\ last' = NoCommand
    /\ UNCHANGED <<build, started, opsBound, cal, settings>>

\* CloseModal that records a move of the line the modal was opened on
CloseModal_Records ==
    /\ dialog.open
    /\ dialog' = NoDialog
    /\ undoStack' = PushAction(undoStack, MoveAction([Idle EXCEPT !.src = dialog.file,
                                                                 !.line = dialog.line]))
    /\ last' = Called("closeModal")
    /\ UNCHANGED <<build, vault, ops, started, opsBound, cal, settings>>

\* the modal is closed without a submission
CloseModal ==
    /\ dialog.open
    /\ dialog' = NoDialog
    /\ last' = Called("closeModal")
    /\ UNCHANGED <<build, vault, undoStack, ops, started, opsBound, cal, settings>>

\* command 'Undo Last Task Movement'
UndoLastAction ==
    /\ CanStart
    /\ started' = started + 1
    /\ Install(UndoStart(vault, undoStack), FreeSlot)
    /\ last' = Called("undoLastAction")
    /\ UNCHANGED <<build, dialog, opsBound, cal, settings>>

\* the pending I/O call of the operation in slot i completes
Resume(i) ==
    /\ ops[i].pc # "idle"
    /\ Install(StepOp(build, vault, undoStack, ops[i]), i)
    /\ last' = NoCommand
    /\ UNCHANGED <<build, dialog, started, opsBound, cal, settings>>

Next ==
    \/ \E c \in Cursors(vault) : MoveTaskToInbox(c[1], c[2])
    \/ \E c \in Cursors(vault) : MoveTask(c[1], c[2])
    \/ \E c \in Cursors(vault) : MoveAnywhere(c[1], c[2])
    \/ \E date \in {DAY1} : SubmitDate(date)
    \/ SubmitTag
    \/ CloseModal
    \/ UndoLastAction
    \/ \E i \in Slots : Resume(i)

Spec == Init /\ [][Next]_pvars

\* ----------------------------------------------- one operation at a time
\* The user waits for each operation to end before the next command: every
\* command and submission runs its operation to the end.

\* the vault and the stack an operation leaves behind
Leave(e) ==
    /\ vault' = e.vault
    /\ undoStack' = e.undoStack
    /\ UNCHANGED ops

InstallRun(n) == Leave(RunFrom(build, n))

SerialMoveTaskToInbox(file, line) ==
    /\ CanStart
    /\ started' = started + 1
    /\ InstallRun(IF IsTodoLine(EditorLine(vault, file, line))
                  THEN MoveStart(vault, undoStack, file, line, INBOX, "Inbox")
                  ELSE St(vault, undoStack, Idle))
    /\ last' = Issued("moveTaskToInbox", file, line)
    /\ UNCHANGED <<build, dialog, opsBound, cal, settings>>

SerialSubmitDate(date) ==
    /\ dialog.open
    /\ InstallRun(MoveStart(vault, undoStack, dialog.file, dialog.line,
                            getDayFileName(WEEK_PLANNER_BASE_DIR, date), "Inbox"))
    /\ dialog' = NoDialog
    /\ last' = NoCommand
    /\ UNCHANGED <<build, started, opsBound, cal, settings>>

SerialSubmitTag ==
    /\ dialog.open
    /\ InstallRun(TagStart(vault, undoStack, dialog.file, dialog.line))
    /\ dialog' = NoDialog
    /\ last' = NoCommand
    /\ UNCHANGED <<build, started, opsBound, cal, settings>>

SerialUndoLastAction ==
    /\ CanStart
    /\ started' = started + 1
    /\ InstallRun(UndoStart(vault, undoStack))
    /\ last' = Called("undoLastAction")
    /\ UNCHANGED <<build, dialog, opsBound, cal, settings>>

NextSerial ==
    \/ \E c \in Cursors(vault) : SerialMoveTaskToInbox(c[1], c[2])
    \/ \E c \in Cursors(vault) : MoveTask(c[1], c[2])
    \/ \E c \in Cursors(vault) : MoveAnywhere(c[1], c[2])
    \/ \E date \in {DAY1} : SerialSubmitDate(date)
    \/ SerialSubmitTag
    \/ CloseModal
    \/ SerialUndoLastAction

InitSerial == Start(InitVaults, SerialOps)

SpecSerial == InitSerial /\ [][NextSerial]_pvars

\* ------------------------------------------------ the section editor alone
\* insertAt and deleteLine of a WeekPlannerFile on one note, whatever its content:
\* insertIntoInbox / insertIntoTargetDate / move call them with a to-do text.

NoteLines == {"", "---", "## Inbox", "# Inbox", "- [ ] a", "note"}

RECURSIVE Notes(_)
Notes(n) ==
    IF n = 1 THEN {<<l>> : l \in NoteLines}
    ELSE Notes(n - 1) \cup {Append(q, l) : q \in Notes(n - 1), l \in NoteLines}

Texts == {"- [ ] a", "- [x] b"}
Headers == {"Inbox", "Later"}

EditInsertAt(text, header) ==
    /\ started < opsBound
    /\ started' = started + 1
    /\ vault' = [vault EXCEPT ![INBOX] = Join(insertAt(build, @, text, header).lines)]
    /\ last' = Called("insertAt")
    /\ UNCHANGED <<build, undoStack, ops, dialog, opsBound, cal, settings>>

EditDeleteLine(lineNumber, lineText) ==
    /\ started < opsBound
    /\ started' = started + 1
    /\ vault' = [vault EXCEPT ![INBOX] = Join(deleteLine(build, @, lineNumber, lineText).lines)]
    /\ last' = Called("deleteLine")
    /\ UNCHANGED <<build, undoStack, ops, dialog, opsBound, cal, settings>>

NextEdit ==
    \/ \E text \in Texts, header \in Headers : EditInsertAt(text, header)
    \/ \E k \in 0..(Len(vault[INBOX]) - 1) : EditDeleteLine(k, vault[INBOX][k + 1])
    \/ \E k \in 0..MaxNote, text \in Texts : EditDeleteLine(k, text)

InitEdit == Start({Vault(n, NoFile, NoFile, NoFile) : n \in Notes(MaxNote)}, EditOps)

SpecEdit == InitEdit /\ [][NextEdit]_pvars

\* ------------------------------------------------------- the undo stack
\* Moves of the first to-do line of the inbox into the inbox, and undos, one
\* after the other, long enough to fill the stack.

StackOps == 53

NoteStack == <<"## Inbox", "- [ ] a", "- [x] b", "- [ ] c", "">>

\* the first to-do line of a note
TopTask(lines) == First({i \in Indices(lines) : IsTodoLine(lines[i + 1])})

StackMove ==
    /\ TopTask(vault[INBOX]) # -1
    /\ SerialMoveTaskToInbox(INBOX, TopTask(vault[INBOX]))

NextStack ==
    \/ StackMove
    \/ SerialUndoLastAction

InitStack == Start({Vault(NoteStack, NoFile, NoFile, NoFile)}, StackOps)

SpecStack == InitStack /\ [][NextStack]_pvars

\* --------------------------------------------------- the date functions
\* getNextWorkingDay, getTomorrowDate and getYesterdayDate, one step of their
\* loop at a time.

DaySpan == 7

\* day steps after which a search is no longer followed
DayCap == 368

\* day steps a call has made
DaySteps == IF cal.date >= cal.from THEN cal.date - cal.from ELSE cal.from - cal.date

\* the dates a call may start from: a week from the Sunday before DAY1
FromDates == (DAY1 - 1)..(DAY1 - 1 + DaySpan)

\* working-days settings with at least one weekday abbreviation among their days
WorkingDaySpecs ==
    {"Mon,Tue,Wed,Thu,Fri", "Sat", "Sun,Wed", "Fri,Mon", "Xyz,Sat",
     "Mon,Tue,Wed,Thu,Fri,Sat,Sun"}

\* a call that tests before it advances
CallDate_TestFirst(fn, workingDays, from) ==
    /\ cal.pc \in {"idle", "done"}
    /\ cal' = [fn |-> fn, pc |-> "test", workingDays |-> workingDays, from |-> from,
               date |-> from]
    /\ last' = NoCommand
    /\ UNCHANGED <<build, vault, undoStack, ops, dialog, started, opsBound, settings>>

\* let date = fromDate.clone(), up to the do-while loop
CallDate(fn, workingDays, from) ==
    /\ cal.pc \in {"idle", "done"}
    /\ cal' = [fn |-> fn, pc |-> "add", workingDays |-> workingDays, from |-> from,
               date |-> from]
    /\ last' = NoCommand
    /\ UNCHANGED <<build, vault, undoStack, ops, dialog, started, opsBound, settings>>

GetNextWorkingDay(workingDays, fromDate) == CallDate("getNextWorkingDay", workingDays, fromDate)

GetTomorrowDate(workingDays, date) == CallDate("getTomorrowDate", workingDays, date)

\* a search back that tests today before it steps back
GetYesterdayDate_TestFirst(workingDays, now) ==
    /\ cal.pc \in {"idle", "done"}
    /\ cal' = [fn |-> "getYesterdayDate", pc |-> "test", workingDays |-> workingDays,
               from |-> now, date |-> now]
    /\ last' = NoCommand
    /\ UNCHANGED <<build, vault, undoStack, ops, dialog, started, opsBound, settings>>

\* let date = moment().subtract(1, 'days'): moment() is `now`, the subtraction
\* is the first SubDay
GetYesterdayDate(workingDays, now) ==
    /\ cal.pc \in {"idle", "done"}
    /\ cal' = [fn |-> "getYesterdayDate", pc |-> "sub", workingDays |-> workingDays,
               from |-> now, date |-> now]
    /\ last' = NoCommand
    /\ UNCHANGED <<build, vault, undoStack, ops, dialog, started, opsBound, settings>>

\* date.add(1, 'days')
AddDay ==
    /\ cal.pc = "add"
    /\ DaySteps < DayCap
    /\ cal' = [cal EXCEPT !.date = @ + 1, !.pc = "test"]
    /\ UNCHANGED <<build, vault, undoStack, ops, dialog, started, opsBound, last, settings>>

\* date.subtract(1, 'days')
SubDay ==
    /\ cal.pc = "sub"
    /\ DaySteps < DayCap
    /\ cal' = [cal EXCEPT !.date = @ - 1, !.pc = "test"]
    /\ UNCHANGED <<build, vault, undoStack, ops, dialog, started, opsBound, last, settings>>

\* TestDay that takes every day for a working day
TestDay_AnyDay ==
    /\ cal.pc = "test"
    /\ cal' = [cal EXCEPT !.pc = "done"]
    /\ UNCHANGED <<build, vault, undoStack, ops, dialog, started, opsBound, last, settings>>

\* while (!isWorkingDay(date.toDate(), workingDays)); return date.toDate()
TestDay ==
    /\ cal.pc = "test"
    /\ cal' = [cal EXCEPT !.pc = IF isWorkingDay(cal.date, cal.workingDays) THEN "done"
                                 ELSE IF cal.fn = "getYesterdayDate" THEN "sub"
                                 ELSE "add"]
    /\ UNCHANGED <<build, vault, undoStack, ops, dialog, started, opsBound, last, settings>>

NextDate ==
    \/ \E w \in WorkingDaySpecs, d \in FromDates : GetNextWorkingDay(w, d)
    \/ \E w \in WorkingDaySpecs, d \in FromDates : GetTomorrowDate(w, d)
    \/ \E w \in WorkingDaySpecs, d \in FromDates : GetYesterdayDate(w, d)
    \/ AddDay
    \/ SubDay
    \/ TestDay

InitDate == Start({Vault(NoFile, NoFile, NoFile, NoFile)}, 0)

SpecDate == InitDate /\ [][NextDate]_pvars

\* working-days settings none of whose days is a weekday abbreviation
NoDaySpecs == {"", "Xyz"}

NextSearch ==
    \/ \E w \in NoDaySpecs, d \in FromDates : GetNextWorkingDay(w, d)
    \/ \E w \in NoDaySpecs, d \in FromDates : GetTomorrowDate(w, d)
    \/ \E w \in NoDaySpecs, d \in FromDates : GetYesterdayDate(w, d)
    \/ AddDay
    \/ SubDay
    \/ TestDay

SpecSearch == InitDate /\ [][NextSearch]_pvars

\* ------------------------------------------------------- the settings tab

\* every day of the list is a weekday abbreviation
allDaysValid(days) ==
    \A k \in 1..Len(days) : \E j \in 1..Len(WEEKDAYS) : days[k] = WEEKDAYS[j]

isValidWorkingDaysString(value) ==
    IF Trim(value) = "" THEN FALSE ELSE allDaysValid(Split(value))

\* validateOrDefault that keeps what was typed
validateOrDefault_Keep(value) == value

validateOrDefault(value) ==
    IF isValidWorkingDaysString(value) THEN value ELSE DEFAULT_SETTINGS.workingDays

\* /[:/\\]/.test(value)
HasSeparator(value) ==
    \E i \in 1..Len(value) : SubSeq(value, i, i) \in {":", "/", "\\"}

\* validateDirectoryOrDefault that keeps what was typed
validateDirectoryOrDefault_Keep(value, defaultValue) == value

validateDirectoryOrDefault(value, defaultValue) ==
    IF value = "" \/ HasSeparator(value) THEN defaultValue ELSE value

\* texts typed into the fields of the settings tab
WorkingDaysInputs ==
    {"", " ", "Xyz", "Mon,Xyz", "Mon,", "Sat", "Sun,Wed", "Mon,Tue,Wed,Thu,Fri,Sat,Sun"}
BaseDirInputs == {"", " ", "Daily", " Daily ", "a/b", "C:", "a\\b"}
TagFolderInputs == {"", " ", "Tags"}
TemplateInputs == {"", DailyNoteTemplate}

\* the onChange handler of the field `name` ran in the last step on the text
\* `value`
Entered(name, value) == [cmd |-> name, todo |-> FALSE, value |-> value]

\* the date functions do not await: a handler runs between their calls
NoCallRunning == cal.pc \in {"idle", "done"}

\* 'Daily Note Template' onChange
ChangeDailyNoteTemplate(value) ==
    /\ NoCallRunning
    /\ settings' = [settings EXCEPT !.dailyNoteTemplate = value]
    /\ last' = Entered("dailyNoteTemplate", value)
    /\ cal' = NoCall
    /\ UNCHANGED <<build, vault, undoStack, ops, dialog, started, opsBound>>

\* 'Working Days' onChange
ChangeWorkingDays(value) ==
    /\ NoCallRunning
    /\ settings' = [settings EXCEPT !.workingDays = validateOrDefault(value)]
    /\ last' = Entered("workingDays", value)
    /\ cal' = NoCall
    /\ UNCHANGED <<build, vault, undoStack, ops, dialog, started, opsBound>>

\* 'Tag Base Folder' onChange
ChangeTagBaseFolder(value) ==
    /\ NoCallRunning
    /\ settings' = [settings EXCEPT !.tagBaseFolder = IF Trim(value) = "" THEN "_tags"
                                                      ELSE Trim(value)]
    /\ last' = Entered("tagBaseFolder", value)
    /\ cal' = NoCall
    /\ UNCHANGED <<build, vault, undoStack, ops, dialog, started, opsBound>>

\* 'Base directory' onChange
ChangeBaseDir(value) ==
    /\ NoCallRunning
    /\ settings' = [settings EXCEPT
                        !.baseDir = Trim(validateDirectoryOrDefault(value, DEFAULT_SETTINGS.baseDir))]
    /\ last' = Entered("baseDir", value)
    /\ cal' = NoCall
    /\ UNCHANGED <<build, vault, undoStack, ops, dialog, started, opsBound>>

\* the settings tab, and the date functions called with the stored working days
NextSettings ==
    \/ \E value \in TemplateInputs : ChangeDailyNoteTemplate(value)
    \/ \E value \in WorkingDaysInputs : ChangeWorkingDays(value)
    \/ \E value \in TagFolderInputs : ChangeTagBaseFolder(value)
    \/ \E value \in BaseDirInputs : ChangeBaseDir(value)
    \/ \E d \in FromDates : GetNextWorkingDay(settings.workingDays, d)
    \/ \E d \in FromDates : GetTomorrowDate(settings.workingDays, d)
    \/ \E d \in FromDates : GetYesterdayDate(settings.workingDays, d)
    \/ AddDay
    \/ SubDay
    \/ TestDay

SpecSettings == InitDate /\ [][NextSettings]_pvars

\* ------------------------------------------------------------------ claims

\* destinations a move can name
Dests == {INBOX, DAYFILE1, TagPagePath(TAG)}

\* move(editor, source, dest, 'Inbox') run to its end from vault v and stack s
Moved(v, s, file, line, dest) ==
    LET n == MoveStart(v, s, file, line, dest, "Inbox")
    IN  RunOp(build, n.vault, n.undoStack, n.op)

Undone(v, s) ==
    LET n == UndoStart(v, s) IN RunOp(build, n.vault, n.undoStack, n.op)

\* a move of a to-do line between two existing notes: the cursor is on a to-do
\* line of a note of the base directory and the destination is another note
IsMoveBetweenNotes(v, file, line, dest) ==
    /\ IsTodoLine(EditorLine(v, file, line))
    /\ extendFileName(WEEK_PLANNER_BASE_DIR, Name(file)) = file
    /\ Exists(v, dest)
    /\ dest # file

UndoRestores(v, s, file, line, dest) ==
    LET m == Moved(v, s, file, line, dest)
        u == Undone(m.vault, m.undoStack)
    IN  /\ u.vault[file] = v[file]
        /\ u.vault[dest] = v[dest]
        /\ Len(u.undoStack) = Len(m.undoStack) - 1

\* C1: a move between two notes followed at once by undoLastAction restores the
\* source and the destination line for line and pops exactly one entry.
C1_UndoRestoresBothFiles ==
    \A c \in Cursors(vault), dest \in Dests :
        IsMoveBetweenNotes(vault, c[1], c[2], dest)
            => UndoRestores(vault, undoStack, c[1], c[2], dest)

\* the note the section editor works on
Note == vault[INBOX]

IsHeaderFor(l, header) == Trim(l) = "# " \o header \/ Trim(l) = "## " \o header

HeaderIndices(lines, header) ==
    {i \in 0..(Len(lines) - 1) : IsHeaderFor(lines[i + 1], header)}

\* insert under a header the note does not have, then delete the inserted to-do
\* line (the line after the synthesized header)
InsertThenDelete(lines, text, header) ==
    LET r == Join(insertAt(build, lines, text, header).lines)
        h == CHOOSE i \in HeaderIndices(r, header) : TRUE
    IN  Join(deleteLine(build, r, h + 1, text).lines)

\* C2: on a note without a header line for H, insertAt(text, H) and then
\* deleteLine of the inserted line give back the content before the insert.
C2_InsertThenDeleteRestores ==
    \A text \in Texts, header \in Headers :
        HeaderIndices(Note, header) = {} => InsertThenDelete(Note, text, header) = Note

\* the frontmatter block: the lines up to the one the match closes on
FrontMatterBlock(lines) == SubSeq(lines, 1, FrontMatterClose(lines) + 1)

\* r arises from lines by adding lines after the first n only
AddsOnlyAfter(lines, r, n) ==
    /\ Len(r) >= Len(lines)
    /\ SubSeq(r, 1, n) = SubSeq(lines, 1, n)

\* C3: insertAt on a note with frontmatter leaves the block's lines where they
\* are and adds lines only after its closing line.
C3_FrontMatterPreserved ==
    \A text \in Texts, header \in Headers :
        HasFrontMatter(Note)
            => AddsOnlyAfter(Note, Join(insertAt(build, Note, text, header).lines),
                             FrontMatterClose(Note) + 1)

\* two inserts in sequence under one header
InsertTwice(lines, t1, t2, header) ==
    Join(insertAt(build, Join(insertAt(build, lines, t1, header).lines), t2, header).lines)

\* both texts directly under the only header line for the name, one after the
\* other, then exactly one blank line (an empty last element is the final
\* newline of the content, not a line)
TwoUnderOneHeader(r, t1, t2, header) ==
    /\ Cardinality(HeaderIndices(r, header)) = 1
    /\ LET h == CHOOSE i \in HeaderIndices(r, header) : TRUE
       IN  /\ h + 3 < Len(r)
           /\ {r[h + 2], r[h + 3]} = {t1, t2}
           /\ r[h + 4] = ""
           /\ (h + 5 < Len(r) => r[h + 5] # "")

\* C4: two inserts under the same header leave both to-dos consecutive under a
\* single header line for the name, with exactly one blank line after them.
C4_HeaderReuse ==
    \A header \in Headers :
        TwoUnderOneHeader(InsertTwice(Note, "- [ ] a", "- [x] b", header),
                          "- [ ] a", "- [x] b", header)

\* the content a suspended operation is about to write, recomputed from the
\* note as it is now
Recomputed(o) ==
    CASE o.pc = "delWrite" -> Join(deleteLine(build, vault[o.src], o.line, o.task).lines)
      [] o.pc = "insWrite" -> Join(insertAt(build, vault[o.dest], o.task, o.header).lines)
      [] o.pc = "undoDestWrite" -> Join(UndoDest(vault[o.dest], o.insertedLines, o.headerAdded))
      [] o.pc = "undoSrcWrite" -> SpliceIn(vault[o.src], o.line, <<o.task>>)
      [] OTHER -> o.buf

\* C5: no two operations overlap: between the read and the write of an
\* operation's read-modify-write no other operation writes the note, so the
\* content an operation is about to write is the one computed from the note as
\* it is at the write.
C5_NoInterleavedWrite ==
    \A i \in Slots : ops[i].buf = Recomputed(ops[i])

\* the entry a move of the first to-do line of the inbox records
RecordsTopTask(a) ==
    /\ a.sourceFile = INBOX
    /\ a.destFile = INBOX
    /\ a.sourceLine = TopTask(vault[INBOX])
    /\ a.taskContent = vault[INBOX][TopTask(vault[INBOX]) + 1]

\* what a step does to the stack: an undo pops the newest entry (or finds the
\* stack empty), a move appends its entry and, on a full stack, evicts the oldest
StackStep ==
    /\ Len(undoStack') <= UNDO_LIMIT
    /\ \/ undoStack = <<>> /\ undoStack' = <<>>
       \/ undoStack # <<>> /\ undoStack' = SubSeq(undoStack, 1, Len(undoStack) - 1)
       \/ /\ undoStack' # <<>>
          /\ TopTask(vault[INBOX]) # -1
          /\ RecordsTopTask(undoStack'[Len(undoStack')])
          /\ SubSeq(undoStack', 1, Len(undoStack') - 1)
                = IF Len(undoStack) = UNDO_LIMIT THEN Tail(undoStack) ELSE undoStack

\* C6: the undo stack never holds more than 50 entries; a move recorded on a
\* full stack evicts the oldest entry and keeps the others in their order, with
\* the new entry last.
C6_UndoStackBounded == [][StackStep]_pvars

\* a full stack whose oldest entry is no longer the first move made
C6_OldestEvicted ==
    /\ Len(undoStack) = UNDO_LIMIT
    /\ undoStack[1].taskContent # NoteStack[TopTask(NoteStack) + 1]

\* how many lines of a note are the line t
Count(lines, t) == Cardinality({i \in 1..Len(lines) : lines[i] = t})

IsHeaderLine(l) == StartsWith(Trim(l), "# ") \/ StartsWith(Trim(l), "## ")

\* the lines of a note other than t, blank lines and header lines, in order
Others(lines, t) ==
    LET Keep(l) == l # t /\ Trim(l) # "" /\ ~IsHeaderLine(l)
    IN  SelectSeq(lines, Keep)

\* a move whose source, the note open in the editor, is its destination
SameNoteMoveKeeps(v, s, file, line) ==
    LET task == EditorLine(v, file, line)
        m == Moved(v, s, file, line, file)
    IN  /\ Count(m.vault[file], task) = Count(v[file], task)
        /\ Others(m.vault[file], task) = Others(v[file], task)
        /\ \A p \in Paths \ {file} : m.vault[p] = v[p]

MoveEnds(i) == ops[i].kind = "move" /\ ops[i].pc # "idle" /\ ops'[i].pc = "idle"

\* C8: a move of a to-do line writes the source (deleteLine) and then the
\* destination (insertAt), and pushes exactly one MoveAction with the move's
\* six fields after both writes: a move ends in its insertAt write with the
\* deleteLine write made before, the push is made there, and nowhere else.
C8_DeleteThenInsertThenPush ==
    [][/\ \A i \in Slots :
            MoveEnds(i) => /\ ops[i].pc = "insWrite"
                           /\ ops[i].wrote = <<"delete">>
                           /\ vault' = [vault EXCEPT ![ops[i].dest] = ops[i].buf]
                           /\ undoStack' = PushAction(undoStack, MoveAction(ops[i]))
       /\ Len(undoStack') > Len(undoStack) => \E i \in Slots : MoveEnds(i)]_pvars

MoveCommands == {"moveTaskToInbox", "moveTask", "moveAnywhere"}

\* move() itself on a cursor line that is no to-do line: nothing is issued
MoveIgnores(v, s) ==
    \A c \in Cursors(v), dest \in Dests :
        ~IsTodoLine(EditorLine(v, c[1], c[2]))
            => MoveStart(v, s, c[1], c[2], dest, "Inbox") = St(v, s, Idle)

\* C9: with the cursor on a line that starts with neither to-do prefix,
\* moveTaskToInbox, moveTask, moveAnywhere and move write and create no file,
\* open no dialog, start no operation and leave the undo stack as it is.
C9_NonTodoLineIgnored ==
    [][/\ (last'.cmd \in MoveCommands /\ ~last'.todo)
            => UNCHANGED <<vault, undoStack, ops, dialog>>
       /\ MoveIgnores(vault, undoStack)]_pvars

\* moveTaskToInbox has just been issued on a line that is no to-do line, with a
\* move recorded before
C9_IgnoredAfterMove ==
    /\ last = [cmd |-> "moveTaskToInbox", todo |-> FALSE]
    /\ undoStack # <<>>

\* C10: getNextWorkingDay and getTomorrowDate return the first working day
\* strictly later than the date they start from: the result is a working day,
\* it is at least one day later, and no day in between is a working day.
C10_NextWorkingDay ==
    (cal.pc = "done" /\ cal.fn \in {"getNextWorkingDay", "getTomorrowDate"})
        => /\ isWorkingDay(cal.date, cal.workingDays)
           /\ cal.date >= cal.from + 1
           /\ \A d \in (cal.from + 1)..(cal.date - 1) : ~isWorkingDay(d, cal.workingDays)

\* a call from a working day has returned a day after the next one
C10_SkippedFromWorkingDay ==
    /\ cal.pc = "done"
    /\ cal.fn \in {"getNextWorkingDay", "getTomorrowDate"}
    /\ isWorkingDay(cal.from, cal.workingDays)
    /\ cal.date > cal.from + 1

\* C11: the working-day search ends for every working-days string: with no
\* valid day in the string it stops after at most 366 day steps.
C11_SearchBounded == DaySteps <= 366

\* C12: getYesterdayDate returns the latest working day strictly earlier than
\* the current date: the result is a working day, at least one day back, and
\* no day between it and today is a working day.
C12_YesterdayDate ==
    (cal.pc = "done" /\ cal.fn = "getYesterdayDate")
        => /\ isWorkingDay(cal.date, cal.workingDays)
           /\ cal.date <= cal.from - 1
           /\ \A d \in (cal.date + 1)..(cal.from - 1) : ~isWorkingDay(d, cal.workingDays)

\* a search back from a working day has returned a day before the previous one
C12_SkippedBackFromWorkingDay ==
    /\ cal.pc = "done"
    /\ cal.fn = "getYesterdayDate"
    /\ isWorkingDay(cal.from, cal.workingDays)
    /\ cal.date < cal.from - 1

\* the line deleteLine is to remove: the one at lineNumber when it is the text,
\* else the first line that is the text, -1 without one
DeleteTarget(lines, lineNumber, lineText) ==
    IF lineNumber < Len(lines) /\ lines[lineNumber + 1] = lineText THEN lineNumber
    ELSE IF \E i \in Indices(lines) : lines[i + 1] = lineText
         THEN CHOOSE i \in Indices(lines) :
                /\ lines[i + 1] = lineText
                /\ \A j \in Indices(lines) : lines[j + 1] = lineText => i <= j
         ELSE -1

\* r is base, or base without one header line and the blank line after it
IsCleanupOf(r, base) ==
    \/ r = Join(base)
    \/ \E h \in Indices(base) :
          /\ IsHeaderLine(base[h + 1])
          /\ \/ r = Join(SpliceOut(base, h))
             \/ h + 1 < Len(base) /\ base[h + 2] = "" /\ r = Join(SpliceOut(SpliceOut(base, h), h))

DeleteRemovesTarget(lines, lineNumber, lineText) ==
    LET r == Join(deleteLine(build, lines, lineNumber, lineText).lines)
        t == DeleteTarget(lines, lineNumber, lineText)
    IN  IF t = -1 THEN r = lines
        ELSE /\ IsCleanupOf(r, SpliceOut(lines, t))
             /\ Count(r, lineText) = Count(lines, lineText) - 1

SectionHeader(lines, k) ==
    LET S == {h \in 0..(k - 1) : IsHeaderLine(lines[h + 1])}
    IN  IF S = {} THEN -1 ELSE CHOOSE h \in S : \A j \in S : j <= h

\* a to-do line follows the header at h before the next header line
SectionHasTodo(lines, h) ==
    \E i \in (h + 1)..(Len(lines) - 1) :
        /\ IsTodoTrimmed(lines[i + 1])
        /\ \A j \in (h + 1)..i : ~IsHeaderLine(lines[j + 1])

\* lines without the header line at h and one blank line right after it
Collapsed(lines, h) ==
    IF h + 1 < Len(lines) /\ lines[h + 2] = ""
    THEN SpliceOut(SpliceOut(lines, h), h)
    ELSE SpliceOut(lines, h)

\* C14: when deleteLine removes the last to-do line under a header, whatever
\* the header's name, the header line and one blank line right after it are
\* removed as well.
C14_EmptySectionRemoved ==
    \A k \in Indices(Note) :
        LET base == SpliceOut(Note, k)
            h == SectionHeader(Note, k)
        IN  (IsTodoLine(Note[k + 1]) /\ h # -1 /\ ~SectionHasTodo(base, h))
                => Join(deleteLine(build, Note, k, Note[k + 1]).lines) = Join(Collapsed(base, h))

\* the first line after the frontmatter block, line 0 without frontmatter
BodyStart(lines) == IF HasFrontMatter(lines) THEN FrontMatterClose(lines) + 1 ELSE 0

\* the lines at or after the end of the frontmatter that trim to `## header`
BodyHeaders(lines, header) ==
    {i \in BodyStart(lines)..(Len(lines) - 1) : Trim(lines[i + 1]) = "## " \o header}

CountHeaders(lines, header) ==
    Cardinality({i \in Indices(lines) : Trim(lines[i + 1]) = "## " \o header})

\* C15: insertAt of the ## variant adds a header line exactly when no line at
\* or after the end of the frontmatter trims to `## header`; with such a line,
\* the first line of the note included, headerAdded is false and the note has
\* as many such header lines as before.
C15_HeaderOnlyWhenAbsent ==
    build = 1 =>
        \A text \in Texts, header \in Headers :
            LET r == insertAt(build, Note, text, header)
            IN  /\ r.headerAdded <=> BodyHeaders(Note, header) = {}
                /\ BodyHeaders(Note, header) # {}
                      => CountHeaders(Join(r.lines), header) = CountHeaders(Note, header)

\* r is lines with text and a blank line put right under the header line at h,
\* the blank lines that followed the header dropped
InsertedUnder(lines, r, h, text) ==
    \E j \in (h + 1)..Len(lines) :
        /\ \A i \in (h + 1)..(j - 1) : Trim(lines[i + 1]) = ""
        /\ j = Len(lines) \/ Trim(lines[j + 1]) # ""
        /\ r = SubSeq(lines, 1, h + 1) \o <<text, "">> \o SubSeq(lines, j + 1, Len(lines))

\* C16: when insertAt of the ## variant finds the header, at index h, it
\* writes the note with line h still the header, the text at h+1, a blank
\* line at h+2 and then the rest of the note without the blank lines that
\* followed the header.
C16_InsertedUnderHeader ==
    build = 1 =>
        \A text \in Texts, header \in Headers :
            LET r == insertAt(build, Note, text, header)
            IN  ~r.headerAdded
                    => \E h \in BodyHeaders(Note, header) : InsertedUnder(Note, r.lines, h, text)

\* r has a header line for the name at index h and the text right after it
HeaderThenText(r, h, text, header) ==
    /\ h + 1 < Len(r)
    /\ IsHeaderFor(r[h + 1], header)
    /\ r[h + 2] = text

\* C17: when insertAt adds the header, the header line is the first line after
\* the closing line of the frontmatter, or, without frontmatter, the second
\* line of the note after one blank line; the text is the line after the header.
C17_NewHeaderPlacement ==
    \A text \in Texts, header \in Headers :
        LET r == insertAt(build, Note, text, header)
        IN  r.headerAdded
                => IF HasFrontMatter(Note)
                   THEN /\ SubSeq(r.lines, 1, BodyStart(Note)) = SubSeq(Note, 1, BodyStart(Note))
                        /\ HeaderThenText(r.lines, BodyStart(Note), text, header)
                   ELSE /\ r.lines[1] = ""
                        /\ HeaderThenText(r.lines, 1, text, header)

\* the lines that are not blank, in order
NonBlank(lines) ==
    LET Keep(l) == Trim(l) # ""
    IN  SelectSeq(lines, Keep)

\* the content insertAt wrote, without the lines at the indices it returned,
\* removed in descending order
WithoutInserted(r) == RemoveAll(Join(r.lines), SortDesc(r.insertedLines))

\* C18: removing the indices insertAt returned, in descending order, from the
\* content it wrote removes every line it added and no line of the note before
\* the insert: the note's non-blank lines are left as they were, and no added
\* header, text or blank line stays.
C18_InsertedLinesExact ==
    \A text \in Texts, header \in Headers :
        LET r == insertAt(build, Note, text, header)
        IN  /\ NonBlank(WithoutInserted(r)) = NonBlank(Note)
            /\ Len(WithoutInserted(r)) <= Len(Note)

\* the step invokes Move Task or Move anywhere, or closes the modal unsubmitted
ModalStep == last'.cmd \in {"moveTask", "moveAnywhere", "closeModal"}

\* C19: invoking Move Task or Move anywhere writes no file, starts no operation
\* and leaves the undo stack as it is, and so does closing the modal without a
\* submission, which leaves no modal to submit.
C19_ModalWritesNothing ==
    [][ModalStep => /\ vault' = vault
                    /\ undoStack' = undoStack
                    /\ ops' = ops
                    /\ last'.cmd = "closeModal" => ~dialog'.open]_pvars

\* a modal opened on a to-do line has been closed without a submission
C19_ClosedUnsubmitted ==
    /\ last = Called("closeModal")
    /\ ~dialog.open
    /\ undoStack = <<>>

\* the step issues the undo command on an empty undo stack
UndoOnEmpty == last'.cmd = "undoLastAction" /\ undoStack = <<>>

\* C20: undoLastAction on an empty undo stack ends at once: no read or write
\* is pending, no file changes and the stack stays empty.
C20_UndoOnEmptyStack ==
    [][UndoOnEmpty => /\ UndoStart(vault, undoStack).op = Idle
                      /\ vault' = vault
                      /\ undoStack' = <<>>
                      /\ ops' = ops]_pvars

\* the undo command has been issued as the first command, on the empty stack
C20_UndoIssuedFirst ==
    /\ last = Called("undoLastAction")
    /\ undoStack = <<>>
    /\ started = 1

\* the step issues the undo command
UndoIssued == last'.cmd = "undoLastAction"

\* the undo takes the last entry off the stack and writes at most the two
\* notes that entry names
PopsLatest ==
    LET top == undoStack[Len(undoStack)]
    IN  /\ undoStack' = SubSeq(undoStack, 1, Len(undoStack) - 1)
        /\ \A p \in Paths \ {top.destFile, top.sourceFile} : vault'[p] = vault[p]

\* C21: every undo takes exactly the most recently recorded move that is still
\* on the stack, so no move is undone twice and as many undos as moves empty
\* the stack; an undo on the empty stack changes no file.
C21_UndoPopsLatest ==
    [][UndoIssued => IF undoStack # <<>> THEN PopsLatest
                     ELSE vault' = vault /\ undoStack' = <<>>]_pvars

\* after two moves an undo has taken the second move off the stack and left
\* the first
C21_LatestOfTwoUndone ==
    /\ last = Called("undoLastAction")
    /\ started = 3
    /\ Len(undoStack) = 1
    /\ undoStack[1].sourceLine = TopTask(NoteStack)

\* the stored working days: a list of weekday abbreviations, not blank
StoredDaysValid ==
    /\ Trim(settings.workingDays) # ""
    /\ \A k \in 1..Len(Split(settings.workingDays)) :
          Split(settings.workingDays)[k] \in {"Mon", "Tue", "Wed", "Thu", "Fri", "Sat", "Sun"}

\* C22: after every change of the Working Days field the stored value is a
\* valid working-days string, an invalid text being replaced by the default,
\* and a search with the stored value ends within a week of day steps.
C22_StoredWorkingDaysValid ==
    /\ StoredDaysValid
    /\ isValidWorkingDaysString(settings.workingDays)
    /\ last.cmd = "workingDays" /\ ~isValidWorkingDaysString(last.value)
          => settings.workingDays = "Mon,Tue,Wed,Thu,Fri"
    /\ DaySteps <= 7

\* a text with an unknown token was typed and the default is stored
C22_InvalidReplaced ==
    /\ last = Entered("workingDays", "Mon,Xyz")
    /\ settings.workingDays = "Mon,Tue,Wed,Thu,Fri"

\* the text holds one of the characters / \ :
NamesPath(str) ==
    \E i \in 1..Len(str) :
        \/ SubSeq(str, i, i) = "/"
        \/ SubSeq(str, i, i) = "\\"
        \/ SubSeq(str, i, i) = ":"

\* C23: after every change of the Base directory field the stored baseDir
\* holds none of the characters / \ and :, a text with one of them being
\* replaced by the default base directory.
C23_BaseDirNoSeparator ==
    /\ ~NamesPath(settings.baseDir)
    /\ last.cmd = "baseDir" /\ NamesPath(last.value)
          => settings.baseDir = WEEK_PLANNER_BASE_DIR

\* a path was typed into the field and the default is stored
C23_PathReplaced ==
    /\ last = Entered("baseDir", "a/b")
    /\ settings.baseDir = WEEK_PLANNER_BASE_DIR

\* C30: after every change of the Base directory field the stored baseDir is
\* not the empty string.
C30_BaseDirNotEmpty == last.cmd = "baseDir" => settings.baseDir # ""

\* dates at the ends of months and years, in leap years and others
BoundaryDates ==
    {0, 10956, 11016, 19416, 19417, 19722, 19723, 19781, 19782, 19783, 47540, 47541}

NameDates == FromDates \cup BoundaryDates

\* str is a four-digit year, a two-digit month and a two-digit day, with dashes
\* between them, of the day number date
IsYearMonthDay(str, date) ==
    /\ Len(str) = 10
    /\ SubSeq(str, 5, 5) = "-" /\ SubSeq(str, 8, 8) = "-"
    /\ \A i \in {1, 2, 3, 4, 6, 7, 9, 10} : DigitValue(SubSeq(str, i, i)) # -1
    /\ Number(SubSeq(str, 6, 7)) \in 1..12
    /\ Number(SubSeq(str, 9, 10)) \in 1..31
    /\ DaysFromCivil(Number(SubSeq(str, 1, 4)), Number(SubSeq(str, 6, 7)),
                     Number(SubSeq(str, 9, 10))) = date

\* name is dir, a slash, the date as YYYY-MM-DD and ".md"
IsDayFileName(name, dir, date) ==
    LET k == Len(dir)
    IN  /\ Len(name) = k + 14
        /\ SubSeq(name, 1, k) = dir
        /\ SubSeq(name, k + 1, k + 1) = "/"
        /\ IsYearMonthDay(SubSeq(name, k + 2, k + 11), date)
        /\ SubSeq(name, k + 12, k + 14) = ".md"

\* C24: getDayFileName is the base directory, a slash, the date as YYYY-MM-DD
\* and ".md", "Daily/2022-10-24.md" for "Daily" and 2022-10-24, and
\* getInboxFileName is the base directory and "/Inbox.md".
C24_FileNames ==
    /\ \A date \in NameDates :
          IsDayFileName(getDayFileName(settings.baseDir, date), settings.baseDir, date)
    /\ getDayFileName("Daily", DAY1) = "Daily/2022-10-24.md"
    /\ getInboxFileName(settings.baseDir) = settings.baseDir \o "/Inbox.md"

\* the base directory is set to Daily and the note of 2022-10-24 is named
C24_DailyNamed ==
    /\ last = Entered("baseDir", "Daily")
    /\ getDayFileName(settings.baseDir, DAY1) = "Daily/2022-10-24.md"
    /\ getInboxFileName(settings.baseDir) = "Daily/Inbox.md"

LeapYear(y) == y % 4 = 0 /\ (y % 100 # 0 \/ y % 400 = 0)

DaysInMonth(y, m) ==
    IF m = 2 THEN (IF LeapYear(y) THEN 29 ELSE 28)
    ELSE IF m \in {4, 6, 9, 11} THEN 30 ELSE 31

\* the civil date after c
NextCivil(c) ==
    IF c.d < DaysInMonth(c.y, c.m) THEN [c EXCEPT !.d = @ + 1]
    ELSE IF c.m < 12 THEN [c EXCEPT !.m = @ + 1, !.d = 1]
    ELSE [y |-> c.y + 1, m |-> 1, d |-> 1]

\* the year, month and day a date string writes
CivilOf(str) ==
    [y |-> Number(SubSeq(str, 1, 4)), m |-> Number(SubSeq(str, 6, 7)),
     d |-> Number(SubSeq(str, 9, 10))]

\* C25: parsing dateString(D) gives D back, getDateFromFilename of the day
\* note's name gives D back for every stored base directory without separator,
\* and the string of the day after D writes the civil date after that of D.
C25_DateRoundTrip ==
    \A D \in NameDates :
        /\ ParseDate(dateString(D)) = D
        /\ ~NamesPath(settings.baseDir)
              => getDateFromFilename(getDayFileName(settings.baseDir, D)) = D
        /\ CivilOf(dateString(D + 1)) = NextCivil(CivilOf(dateString(D)))

\* with Daily as base directory the name of the note of 2024-02-29 gives the
\* date back, and the day after is 2024-03-01
C25_LeapDayRoundTrip ==
    /\ last = Entered("baseDir", "Daily")
    /\ getDayFileName(settings.baseDir, 19782) = "Daily/2024-02-29.md"
    /\ getDateFromFilename("Daily/2024-02-29.md") = 19782
    /\ dateString(19782 + 1) = "2024-03-01"

\* the weekday abbreviation of a date, counted from the Monday 2022-10-24
Abbreviation(date) ==
    <<"Mon", "Tue", "Wed", "Thu", "Fri", "Sat", "Sun">>[((date - DAY1) % 7) + 1]

\* the three letters are an entry of the comma-separated list: they stand
\* between commas or the ends of the string
ListsDay(list, day) ==
    \E i \in 1..(Len(list) - 2) :
        /\ SubSeq(list, i, i + 2) = day
        /\ i = 1 \/ SubSeq(list, i - 1, i - 1) = ","
        /\ i + 2 = Len(list) \/ SubSeq(list, i + 3, i + 3) = ","

\* the loop has tested cal.date and gone on
TestedNotWorking == cal.pc \in {"add", "sub"} /\ DaySteps >= 1

\* C26: isWorkingDay is true exactly when the date's weekday abbreviation is
\* an entry of the working-days list, so a search passes the days that are
\* none and returns one that is; Sunday 2022-10-23 is no working day for
\* "Mon,Tue,Wed,Thu,Fri".
C26_IsWorkingDay ==
    /\ \A w \in WorkingDaySpecs \cup NoDaySpecs, d \in FromDates :
          isWorkingDay(d, w) <=> ListsDay(w, Abbreviation(d))
    /\ TestedNotWorking => ~ListsDay(cal.workingDays, Abbreviation(cal.date))
    /\ cal.pc = "done" => ListsDay(cal.workingDays, Abbreviation(cal.date))
    /\ dateString(DAY1 - 1) = "2022-10-23"
    /\ ~isWorkingDay(DAY1 - 1, "Mon,Tue,Wed,Thu,Fri")

\* the search back from Monday 2022-10-24 has tested Sunday 2022-10-23 against
\* "Mon,Tue,Wed,Thu,Fri" and gone on
C26_SundayPassed ==
    /\ cal.fn = "getYesterdayDate"
    /\ cal.workingDays = "Mon,Tue,Wed,Thu,Fri"
    /\ cal.from = DAY1
    /\ cal.date = DAY1 - 1
    /\ cal.pc = "sub"

\* lines equal to the task in the notes of the set, a missing note holding none
RECURSIVE TaskLines(_, _, _)
TaskLines(v, files, task) ==
    IF files = {} THEN 0
    ELSE LET f == CHOOSE x \in files : TRUE
         IN  (IF Exists(v, f) THEN Count(v[f], task) ELSE 0) + TaskLines(v, files \ {f}, task)

\* the move of the line at the cursor keeps the number of lines equal to the
\* task in its source and destination notes
MoveKeepsTask(v, s, file, line, dest) ==
    LET task == EditorLine(v, file, line)
        source == extendFileName(WEEK_PLANNER_BASE_DIR, Name(file))
        m == Moved(v, s, file, line, dest)
    IN  TaskLines(m.vault, {source, dest}, task) = TaskLines(v, {source, dest}, task)

\* C27: a move neither duplicates nor loses the task: the lines equal to the
\* task, counted over the source and the destination note, are as many after
\* the move as before, also when the source note does not exist.
C27_TaskNeitherLostNorDoubled ==
    \A c \in Cursors(vault), dest \in Dests :
        IsTodoLine(EditorLine(vault, c[1], c[2]))
            => MoveKeepsTask(vault, undoStack, c[1], c[2], dest)

\* the undo is issued on an entry one of whose notes does not exist
UndoAborts ==
    /\ UndoIssued
    /\ undoStack # <<>>
    /\ LET top == undoStack[Len(undoStack)]
       IN  ~Exists(vault, top.destFile) \/ ~Exists(vault, top.sourceFile)

\* C28: an undo that stops because the destination or the source note of its
\* entry is not found has modified no file and leaves the entry on the stack.
C28_AbortedUndoKeepsEntry ==
    [][UndoAborts => vault' = vault /\ undoStack' = undoStack]_pvars

\* deleteLine of the to-do line at k removes that line and, at most, the
\* header line the line lived under with one blank line after it
CleansOwnHeaderOnly(lines, k) ==
    LET base == SpliceOut(lines, k)
        h == SectionHeader(lines, k)
        r == Join(deleteLine(build, lines, k, lines[k + 1]).lines)
    IN  \/ r = Join(base)
        \/ h # -1 /\ r \in {Join(SpliceOut(base, h)), Join(Collapsed(base, h))}

\* C29: the header cleanup of deleteLine removes a header line only when the
\* deleted line lived under it: deleting a to-do line under another header, or
\* under none, removes no line but that one.
C29_CleanupOnlyOwnHeader ==
    \A k \in Indices(Note) : IsTodoLine(Note[k + 1]) => CleansOwnHeaderOnly(Note, k)

====
